---- MODULE Spec2Model ----
(***************************************************************************)
(* Model of packages/core/src/core/openAIContentGenerator.ts: the          *)
(* OpenAIContentGenerator adapter (outbound content translation, the       *)
(* single-shot response mapping, the streaming line decoder and the two    *)
(* unsupported stubs), as one call of one generator object.                *)
(*                                                                         *)
(* Text is a sequence of symbols.  A symbol is one character ("d", ":",    *)
(* " ", "\n", ...) or one JSON token of a payload ("{", "delta", "Hel",    *)
(* "}").  The body of a response is a sequence of bytes; every symbol is   *)
(* one byte except the character "eacute" (U+00E9), which is the two bytes *)
(* "C3" "A9" in UTF-8.                                                     *)
(***************************************************************************)
EXTENDS Integers, Sequences, FiniteSets, TLC

VARIABLES
    pc,            \* position of the call: idle, awaitFetch, returned, failed, streaming
    op,            \* the operation called
    request,       \* request.contents of the call in progress
    fetchCalls,    \* number of times fetch was invoked
    wireReq,       \* request bodies in flight to the backend
    response,      \* the Response fetch resolved with
    result,        \* what the call returned or threw
    warned,        \* console.warn lines written
    gen,           \* state of the generator object returned by generateContentStream
    wire,          \* bytes of the response body the reader has not delivered yet
    pendingBytes,  \* bytes the TextDecoder holds back (an incomplete character)
    buffer,        \* the generator's `buffer`
    lines,         \* the lines of the current chunk the for-loop has not visited yet
    yielded,       \* the values the generator yielded, in order
    diag,          \* console.error lines written by the generator
    midLine        \* history: some chunk ended inside a line

vars == <<pc, op, request, fetchCalls, wireReq, response, result, warned,
          gen, wire, pendingBytes, buffer, lines, yielded, diag, midLine>>

callVars == <<pc, op, request, fetchCalls, wireReq, response, result, warned>>
streamVars == <<gen, wire, pendingBytes, buffer, lines, yielded, diag, midLine>>

-----------------------------------------------------------------------------
(* Bounds *)

MaxTurns == 2      \* turns in request.contents
MaxParts == 2      \* parts in request.contents, all turns together
MaxLines == 3      \* lines in a streaming body
MaxBody == 33      \* bytes in a streaming body
MaxChunk == 12     \* bytes in one chunk delivered by reader.read()

-----------------------------------------------------------------------------
(* Sequence helpers *)

Last(s) == s[Len(s)]
Front(s) == SubSeq(s, 1, Len(s) - 1)
Min(a, b) == IF a < b THEN a ELSE b

SeqsUpTo(S, n) == UNION {[1..k -> S] : k \in 0..n}

-----------------------------------------------------------------------------
(* Outbound translation *)

Roles == {"user", "model", "tool"}
Texts == {"", "Hel"}
TextPart(t) == [kind |-> "text", text |-> t]
FunctionCallPart == [kind |-> "functionCall", text |-> ""]
Parts == {TextPart(t) : t \in Texts} \cup {FunctionCallPart}

\* The Contents with at most n parts; parts may be absent (hasParts = FALSE).
Turns(n) ==
    {[role |-> r, hasParts |-> TRUE, parts |-> ps] :
        r \in Roles, ps \in SeqsUpTo(Parts, n)}
    \cup {[role |-> r, hasParts |-> FALSE, parts |-> <<>>] : r \in Roles}

\* The values of request.contents with at most t turns and n parts in all.
RECURSIVE RequestsWithin(_, _)
RequestsWithin(t, n) ==
    {<<>>} \cup
    (IF t = 0 THEN {}
     ELSE UNION {{<<turn>> \o rest : rest \in RequestsWithin(t - 1, n - Len(turn.parts))} :
                    turn \in Turns(n)})

\* The values of request.contents a call is made with.
Requests == RequestsWithin(MaxTurns, MaxParts)

Ok(v) == [ok |-> TRUE, value |-> v, error |-> "", detail |-> <<>>]
Throw(kind, detail) == [ok |-> FALSE, value |-> <<>>, error |-> kind, detail |-> detail]

UnsupportedRole == "Error: Unsupported role"
UnsupportedPart == "Error: Unsupported part type"
TypeError == "TypeError"
SyntaxError == "SyntaxError"
ApiError == "Error: OpenAI API error"

\* Mutant: the role is passed through when it is not one of the two known.
toOpenAIRolePassThrough(role) ==
    CASE role = "user" -> Ok("user")
      [] role = "model" -> Ok("assistant")
      [] OTHER -> Ok(role)

toOpenAIRole(role) ==
    CASE role = "user" -> Ok("user")
      [] role = "model" -> Ok("assistant")
      [] OTHER -> Throw(UnsupportedRole, <<role>>)

toOpenAIPart(part) ==
    IF part.kind = "text"
    THEN Ok([type |-> "text", text |-> part.text])
    ELSE Throw(UnsupportedPart, <<>>)

\* Mutant: only the first part is converted, the others are not looked at.
MapPartsFirstOnly(ps) ==
    IF ps = <<>> THEN Ok(<<>>)
    ELSE LET h == toOpenAIPart(Head(ps)) IN
         IF ~h.ok THEN h ELSE Ok(<<h.value>>)

\* content.parts?.map(toOpenAIPart) || []: every part is converted, in order,
\* and the first one that throws ends the map.
RECURSIVE MapParts(_)
MapParts(ps) ==
    IF ps = <<>> THEN Ok(<<>>)
    ELSE LET h == toOpenAIPart(Head(ps)) IN
         IF ~h.ok THEN h
         ELSE LET t == MapParts(Tail(ps)) IN
              IF ~t.ok THEN t ELSE Ok(<<h.value>> \o t.value)

\* Mutant: a turn without parts becomes a message with empty content.
toOpenAIChatCompletionMessageEmptyOk(content) ==
    LET role == toOpenAIRole(content.role) IN
    IF ~role.ok THEN role
    ELSE LET parts == IF content.hasParts THEN MapParts(content.parts) ELSE Ok(<<>>) IN
         IF ~parts.ok THEN parts
         ELSE IF parts.value = <<>>
              THEN Ok([role |-> role.value, content |-> ""])
              ELSE LET messagePart == parts.value[1] IN
                   IF messagePart.type = "text"
                   THEN Ok([role |-> role.value, content |-> messagePart.text])
                   ELSE Throw(UnsupportedPart, <<>>)

toOpenAIChatCompletionMessage(content) ==
    LET role == toOpenAIRole(content.role) IN
    IF ~role.ok THEN role
    ELSE LET parts == IF content.hasParts THEN MapParts(content.parts) ELSE Ok(<<>>) IN
         IF ~parts.ok THEN parts
         ELSE IF parts.value = <<>>
              THEN Throw(TypeError, <<"messagePart", "type">>)  \* parts[0] is undefined
              ELSE LET messagePart == parts.value[1] IN
                   IF messagePart.type = "text"
                   THEN Ok([role |-> role.value, content |-> messagePart.text])
                   ELSE Throw(UnsupportedPart, <<>>)

\* request.contents.map(toOpenAIChatCompletionMessage)
RECURSIVE MapMessages(_)
MapMessages(contents) ==
    IF contents = <<>> THEN Ok(<<>>)
    ELSE LET h == toOpenAIChatCompletionMessage(Head(contents)) IN
         IF ~h.ok THEN h
         ELSE LET t == MapMessages(Tail(contents)) IN
              IF ~t.ok THEN t ELSE Ok(<<h.value>> \o t.value)

-----------------------------------------------------------------------------
(* Text: bytes, characters, lines *)

NL == "\n"
Whitespace == {" ", "\r", "\t"}
DataPrefix == <<"d", "a", "t", "a", ":", " ">>
Sentinel == <<"[", "DONE", "]">>

\* UTF-8 of a text.
RECURSIVE Encode(_)
Encode(text) ==
    IF text = <<>> THEN <<>>
    ELSE (IF Head(text) = "eacute" THEN <<"C3", "A9">> ELSE <<Head(text)>>)
         \o Encode(Tail(text))

\* decoder.decode(value, {stream: true}): `pending` is the incomplete character
\* kept from the previous call; an ill-formed sequence decodes to U+FFFD.
RECURSIVE DecodeFrom(_, _, _)
DecodeFrom(pending, bytes, acc) ==
    IF bytes = <<>> THEN [text |-> acc, pending |-> pending]
    ELSE LET b == Head(bytes) IN
         IF pending # <<>>
         THEN IF b = "A9"
              THEN DecodeFrom(<<>>, Tail(bytes), Append(acc, "eacute"))
              ELSE DecodeFrom(<<>>, bytes, Append(acc, "FFFD"))
         ELSE IF b = "C3" THEN DecodeFrom(<<"C3">>, Tail(bytes), acc)
              ELSE IF b = "A9" THEN DecodeFrom(<<>>, Tail(bytes), Append(acc, "FFFD"))
              ELSE DecodeFrom(<<>>, Tail(bytes), Append(acc, b))

Decode(pending, bytes) == DecodeFrom(pending, bytes, <<>>)

\* text.split('\n'): always at least one element.
RECURSIVE SplitFrom(_, _)
SplitFrom(text, cur) ==
    IF text = <<>> THEN <<cur>>
    ELSE IF Head(text) = NL THEN <<cur>> \o SplitFrom(Tail(text), <<>>)
         ELSE SplitFrom(Tail(text), Append(cur, Head(text)))

Split(text) == SplitFrom(text, <<>>)

\* Mutant: the last element of the split is thrown away, not kept.
PopOrEmptyDropped(ls) == <<>>

\* lines.pop() || ''
PopOrEmpty(ls) == IF ls = <<>> THEN <<>> ELSE Last(ls)

StartsWith(line, prefix) ==
    Len(line) >= Len(prefix) /\ SubSeq(line, 1, Len(prefix)) = prefix

Substring(line, from) == SubSeq(line, from + 1, Len(line))

RECURSIVE TrimStart(_)
TrimStart(t) ==
    IF t # <<>> /\ Head(t) \in Whitespace THEN TrimStart(Tail(t)) ELSE t

RECURSIVE TrimEnd(_)
TrimEnd(t) ==
    IF t # <<>> /\ Last(t) \in Whitespace THEN TrimEnd(Front(t)) ELSE t

Trim(t) == TrimEnd(TrimStart(t))

-----------------------------------------------------------------------------
(* JSON payloads *)

ContentTexts == {"", "Hel", "lo", "eacute"}
ContentToken(c) == IF c = "" THEN "''" ELSE c

\* One element of `choices`: obj says whether it carries a delta, a message or
\* neither; hasContent says whether that object has a content field.
JsonChoices ==
    {[index |-> i, finish_reason |-> f, obj |-> o, hasContent |-> TRUE, content |-> c] :
        i \in {0, 1}, f \in {"null", "stop"}, o \in {"delta", "message"},
        c \in ContentTexts}
    \cup
    {[index |-> i, finish_reason |-> f, obj |-> o, hasContent |-> FALSE, content |-> ""] :
        i \in {0, 1}, f \in {"null", "stop"}, o \in {"none", "delta", "message"}}

\* A parsed body: choices may be absent, empty or hold one choice.
JsonValues ==
    {[hasChoices |-> FALSE, choices |-> <<>>], [hasChoices |-> TRUE, choices |-> <<>>]}
    \cup {[hasChoices |-> TRUE, choices |-> <<c>>] : c \in JsonChoices}

\* The text of a JSON value, as tokens.
Stringify(v) ==
    IF ~v.hasChoices THEN <<"{", "}">>
    ELSE IF v.choices = <<>> THEN <<"{", "[]", "}">>
    ELSE LET c == v.choices[1] IN
         <<"{", (IF c.obj = "none" THEN "choice" ELSE c.obj)>>
         \o (IF c.hasContent THEN <<ContentToken(c.content)>> ELSE <<>>)
         \o (IF c.index = 1 THEN <<"#1">> ELSE <<>>)
         \o (IF c.finish_reason = "stop" THEN <<"stop">> ELSE <<>>)
         \o <<"}">>

\* JSON.parse(text): surrounding whitespace is allowed; anything that is not
\* the text of a value is a SyntaxError.
JsonTexts == {Stringify(v) : v \in JsonValues}
JsonValueOf == [t \in JsonTexts |-> CHOOSE v \in JsonValues : Stringify(v) = t]

JSONParse(text) ==
    LET t == Trim(text) IN
    IF t \in JsonTexts THEN Ok(JsonValueOf[t]) ELSE Throw(SyntaxError, <<>>)

\* The GenerateContentResponse built from a choice and its message or delta.
Candidate(choice, content) ==
    [promptFeedback |-> "empty",
     candidates |-> <<[index |-> choice.index,
                       role |-> "model",
                       text |-> content,
                       finishReason |-> choice.finish_reason]>>]

\* Mutant: a field that does not exist is read, so the text is always ''.
ContentOrEmptyWrongField(choice) == ""

\* Mutant: without the || '' a missing content is rendered as it is.
ContentOrEmptyUndefined(choice) ==
    IF choice.hasContent THEN choice.content ELSE "undefined"

\* x.content || ''
ContentOrEmpty(choice) == IF choice.hasContent THEN choice.content ELSE ""

\* const choice = part.choices[0]; const delta = choice.delta; {... delta.content || ''}
toGenericDelta(part) ==
    IF ~part.hasChoices THEN Throw(TypeError, <<"choices", "0">>)
    ELSE IF part.choices = <<>> THEN Throw(TypeError, <<"choice", "delta">>)
    ELSE LET choice == part.choices[1] IN
         IF choice.obj # "delta" THEN Throw(TypeError, <<"delta", "content">>)
         ELSE Ok(Candidate(choice, ContentOrEmpty(choice)))

\* Mutant: the content is read from a delta, which a single-shot choice lacks.
toGenericResponseFromDelta(responseData) ==
    IF ~responseData.hasChoices THEN Throw(TypeError, <<"choices", "0">>)
    ELSE IF responseData.choices = <<>> THEN Throw(TypeError, <<"choice", "message">>)
    ELSE LET choice == responseData.choices[1] IN
         IF choice.obj # "message" THEN Throw(TypeError, <<"message", "content">>)
         ELSE Ok(Candidate(choice, ""))

\* const choice = responseData.choices[0]; const message = choice.message; ...
toGenericResponse(responseData) ==
    IF ~responseData.hasChoices THEN Throw(TypeError, <<"choices", "0">>)
    ELSE IF responseData.choices = <<>> THEN Throw(TypeError, <<"choice", "message">>)
    ELSE LET choice == responseData.choices[1] IN
         IF choice.obj # "message" THEN Throw(TypeError, <<"message", "content">>)
         ELSE Ok(Candidate(choice, ContentOrEmpty(choice)))

-----------------------------------------------------------------------------
(* The streaming generator *)

NoValue == Candidate([index |-> 0, finish_reason |-> "null"], "")

\* Mutant: the catch block ends the generator instead of going on.
RECURSIVE RunLinesStopOnError(_, _)
RunLinesStopOnError(ls, errs) ==
    IF ls = <<>>
    THEN [stop |-> "exhausted", rest |-> <<>>, value |-> NoValue, errs |-> errs]
    ELSE LET line == Head(ls) IN
         IF ~StartsWith(line, DataPrefix) THEN RunLinesStopOnError(Tail(ls), errs)
         ELSE LET data == Substring(line, 6) IN
              IF Trim(data) = Sentinel
              THEN [stop |-> "return", rest |-> <<>>, value |-> NoValue, errs |-> errs]
              ELSE LET part == JSONParse(data)
                       delta == IF part.ok THEN toGenericDelta(part.value) ELSE part
                   IN IF delta.ok
                      THEN [stop |-> "yield", rest |-> Tail(ls),
                            value |-> delta.value, errs |-> errs]
                      ELSE [stop |-> "return", rest |-> <<>>, value |-> NoValue,
                            errs |-> Append(errs, delta.error)]

\* Mutant: the sentinel line is passed over and the loop goes on.
RECURSIVE RunLinesPastSentinel(_, _)
RunLinesPastSentinel(ls, errs) ==
    IF ls = <<>>
    THEN [stop |-> "exhausted", rest |-> <<>>, value |-> NoValue, errs |-> errs]
    ELSE LET line == Head(ls) IN
         IF ~StartsWith(line, DataPrefix) THEN RunLinesPastSentinel(Tail(ls), errs)
         ELSE LET data == Substring(line, 6) IN
              IF Trim(data) = Sentinel
              THEN RunLinesPastSentinel(Tail(ls), errs)
              ELSE LET part == JSONParse(data)
                       delta == IF part.ok THEN toGenericDelta(part.value) ELSE part
                   IN IF delta.ok
                      THEN [stop |-> "yield", rest |-> Tail(ls),
                            value |-> delta.value, errs |-> errs]
                      ELSE RunLinesPastSentinel(Tail(ls), Append(errs, delta.error))

\* Mutant: the payload is taken from every line, data prefix or not.
RECURSIVE RunLinesAnyPrefix(_, _)
RunLinesAnyPrefix(ls, errs) ==
    IF ls = <<>>
    THEN [stop |-> "exhausted", rest |-> <<>>, value |-> NoValue, errs |-> errs]
    ELSE LET data == Substring(Head(ls), 6) IN
         IF Trim(data) = Sentinel
         THEN [stop |-> "return", rest |-> <<>>, value |-> NoValue, errs |-> errs]
         ELSE LET part == JSONParse(data)
                  delta == IF part.ok THEN toGenericDelta(part.value) ELSE part
              IN IF delta.ok
                 THEN [stop |-> "yield", rest |-> Tail(ls),
                       value |-> delta.value, errs |-> errs]
                 ELSE RunLinesAnyPrefix(Tail(ls), Append(errs, delta.error))

\* Mutant: the catch block is empty, nothing is logged.
RECURSIVE RunLinesSilent(_, _)
RunLinesSilent(ls, errs) ==
    IF ls = <<>>
    THEN [stop |-> "exhausted", rest |-> <<>>, value |-> NoValue, errs |-> errs]
    ELSE LET line == Head(ls) IN
         IF ~StartsWith(line, DataPrefix) THEN RunLinesSilent(Tail(ls), errs)
         ELSE LET data == Substring(line, 6) IN
              IF Trim(data) = Sentinel
              THEN [stop |-> "return", rest |-> <<>>, value |-> NoValue, errs |-> errs]
              ELSE LET part == JSONParse(data)
                       delta == IF part.ok THEN toGenericDelta(part.value) ELSE part
                   IN IF delta.ok
                      THEN [stop |-> "yield", rest |-> Tail(ls),
                            value |-> delta.value, errs |-> errs]
                      ELSE RunLinesSilent(Tail(ls), errs)

\* The body of the for-loop over `ls`, run until the generator yields, returns
\* or runs out of lines; errs collects what the catch block logged.
RECURSIVE RunLines(_, _)
RunLines(ls, errs) ==
    IF ls = <<>>
    THEN [stop |-> "exhausted", rest |-> <<>>, value |-> NoValue, errs |-> errs]
    ELSE LET line == Head(ls) IN
         IF ~StartsWith(line, DataPrefix) THEN RunLines(Tail(ls), errs)
         ELSE LET data == Substring(line, 6) IN
              IF Trim(data) = Sentinel
              THEN [stop |-> "return", rest |-> <<>>, value |-> NoValue, errs |-> errs]
              ELSE LET part == JSONParse(data)
                       delta == IF part.ok THEN toGenericDelta(part.value) ELSE part
                   IN IF delta.ok
                      THEN [stop |-> "yield", rest |-> Tail(ls),
                            value |-> delta.value, errs |-> errs]
                      ELSE RunLines(Tail(ls), Append(errs, delta.error))

\* Mutant: the generator does not suspend at a yield but goes on to read.
AdvanceWithoutSuspending(ls) ==
    LET r == RunLines(ls, <<>>) IN
    /\ lines' = r.rest
    /\ diag' = diag \o r.errs
    /\ yielded' = IF r.stop = "yield" THEN Append(yielded, r.value) ELSE yielded
    /\ gen' = IF r.stop = "return" THEN "completed" ELSE "awaitRead"

\* The generator runs the for-loop on from `ls` to its next suspension point.
Advance(ls) ==
    LET r == RunLines(ls, <<>>) IN
    /\ lines' = r.rest
    /\ diag' = diag \o r.errs
    /\ yielded' = IF r.stop = "yield" THEN Append(yielded, r.value) ELSE yielded
    /\ gen' = CASE r.stop = "yield" -> "suspendedYield"
                 [] r.stop = "return" -> "completed"
                 [] OTHER -> "awaitRead"

-----------------------------------------------------------------------------
(* The backend *)

DataLine(payload) == DataPrefix \o payload
Delta(c, i, f) ==
    [hasChoices |-> TRUE,
     choices |-> <<[index |-> i, finish_reason |-> f, obj |-> "delta",
                    hasContent |-> TRUE, content |-> c]>>]
Message(c) ==
    [hasChoices |-> TRUE,
     choices |-> <<[index |-> 0, finish_reason |-> "stop", obj |-> "message",
                    hasContent |-> TRUE, content |-> c]>>]

NoContentDelta(i) ==
    [hasChoices |-> TRUE,
     choices |-> <<[index |-> i, finish_reason |-> "null", obj |-> "delta",
                    hasContent |-> FALSE, content |-> ""]>>]
EmptyChoices == [hasChoices |-> TRUE, choices |-> <<>>]

\* The lines a streaming body is made of: deltas, a delta without content,
\* a truncated payload, a payload without any choice, the sentinel (bare, and
\* with blanks around it as in a CRLF stream) and a comment line.
StreamLines ==
    { DataLine(Stringify(Delta("Hel", 0, "null"))),
      DataLine(Stringify(Delta("lo", 0, "stop"))),
      DataLine(Stringify(Delta("eacute", 1, "null"))),
      DataLine(Stringify(NoContentDelta(0))),
      DataLine(<<"{", "delta", "Hel">>),
      DataLine(Stringify(EmptyChoices)),
      DataLine(Sentinel),
      DataLine(<<" ">> \o Sentinel \o <<"\r">>),
      <<":">> }

RECURSIVE JoinLines(_)
JoinLines(ls) == IF ls = <<>> THEN <<>> ELSE Head(ls) \o <<NL>> \o JoinLines(Tail(ls))

\* Streaming bodies: lines ended by a newline, the last one possibly not.
StreamBodies ==
    {b \in {Encode(JoinLines(ls)) : ls \in SeqsUpTo(StreamLines, MaxLines)}
           \cup {Encode(Front(JoinLines(ls))) :
                    ls \in SeqsUpTo(StreamLines, MaxLines) \ {<<>>}} :
        Len(b) <= MaxBody}

ErrorBodies == {Encode(<<"invalid key">>), <<>>}

NonOkResponses ==
    {[ok |-> FALSE, status |-> st[1], statusText |-> st[2], hasBody |-> TRUE, body |-> b] :
        st \in {<<"401", "Unauthorized">>, <<"500", "Internal Server Error">>},
        b \in ErrorBodies}

OkResponse(b) ==
    [ok |-> TRUE, status |-> "200", statusText |-> "OK", hasBody |-> TRUE, body |-> b]

NoBodyResponse ==
    [ok |-> TRUE, status |-> "200", statusText |-> "OK", hasBody |-> FALSE, body |-> <<>>]

NoResponse ==
    [ok |-> FALSE, status |-> "", statusText |-> "", hasBody |-> FALSE, body |-> <<>>]

\* await response.text()
ResponseText(resp) == Decode(<<>>, resp.body).text

\* Mutant: the body text is left out of the message.
ApiErrorOfStatusOnly(resp) ==
    Throw(ApiError, <<resp.status, " ", resp.statusText, " - ">>)

\* `OpenAI API error: ${response.status} ${response.statusText} - ${errorText}`
ApiErrorOf(resp) ==
    Throw(ApiError, <<resp.status, " ", resp.statusText, " - ">> \o ResponseText(resp))

\* What the backend may answer a non-streaming request with.
SingleShotValues(messages) ==
    {Message(messages[i].content) : i \in 1..Len(messages)}
    \cup {Message("lo"),
          [hasChoices |-> FALSE, choices |-> <<>>],
          [hasChoices |-> TRUE, choices |-> <<>>],
          [hasChoices |-> TRUE,
           choices |-> <<[index |-> 1, finish_reason |-> "null", obj |-> "message",
                          hasContent |-> FALSE, content |-> ""]>>],
          [hasChoices |-> TRUE,
           choices |-> <<[index |-> 0, finish_reason |-> "null", obj |-> "none",
                          hasContent |-> FALSE, content |-> ""]>>]}

SingleShotBodies(messages) ==
    {Encode(Stringify(v)) : v \in SingleShotValues(messages)} \cup {Encode(<<"{">>)}

-----------------------------------------------------------------------------
(* State after construction: no call made yet *)

NoResult == Throw("", <<>>)

Init ==
    /\ pc = "idle"
    /\ op = "none"
    /\ request = <<>>
    /\ fetchCalls = 0
    /\ wireReq = <<>>
    /\ response = NoResponse
    /\ result = NoResult
    /\ warned = <<>>
    /\ gen = "none"
    /\ wire = <<>>
    /\ pendingBytes = <<>>
    /\ buffer = <<>>
    /\ lines = <<>>
    /\ yielded = <<>>
    /\ diag = <<>>
    /\ midLine = FALSE

-----------------------------------------------------------------------------
(* Operations *)

\* fetchAPI(body): one POST handed to the transport.
fetchAPI(body) ==
    /\ fetchCalls' = fetchCalls + 1
    /\ wireReq' = Append(wireReq, body)

\* Mutant: the request is posted even when the translation failed.
BuildAndSendAlways(name, contents, stream) ==
    /\ pc = "idle"
    /\ op' = name
    /\ request' = contents
    /\ LET messages == MapMessages(contents) IN
       /\ fetchAPI([model |-> "OPENAI_MODEL", messages |-> messages.value,
                     stream |-> stream])
       /\ IF messages.ok
          THEN pc' = "awaitFetch" /\ result' = result
          ELSE pc' = "failed" /\ result' = messages
    /\ UNCHANGED <<response, warned>>
    /\ UNCHANGED streamVars

\* generateContent / generateContentStream up to `await this.fetchAPI(body)`.
BuildAndSend(name, contents, stream) ==
    /\ pc = "idle"
    /\ op' = name
    /\ request' = contents
    /\ LET messages == MapMessages(contents) IN
       IF messages.ok
       THEN /\ fetchAPI([model |-> "OPENAI_MODEL", messages |-> messages.value,
                          stream |-> stream])
            /\ pc' = "awaitFetch"
            /\ result' = result
       ELSE /\ pc' = "failed"
            /\ result' = messages
            /\ UNCHANGED <<fetchCalls, wireReq>>
    /\ UNCHANGED <<response, warned>>
    /\ UNCHANGED streamVars

generateContent(contents) == BuildAndSend("generateContent", contents, FALSE)

generateContentStream(contents) == BuildAndSend("generateContentStream", contents, TRUE)

\* Mutant: a rejected fetch is posted again instead of being thrown.
fetchRejectedRetry ==
    /\ pc = "awaitFetch"
    /\ fetchCalls < 3
    /\ fetchAPI(Last(wireReq))
    /\ UNCHANGED <<pc, op, request, response, result, warned>>
    /\ UNCHANGED streamVars

\* fetch rejects (the request could not be sent): the await throws.
fetchRejected ==
    /\ pc = "awaitFetch"
    /\ wireReq' = <<>>
    /\ pc' = "failed"
    /\ result' = Throw("TypeError: fetch failed", <<>>)
    /\ UNCHANGED <<op, request, fetchCalls, response, warned>>
    /\ UNCHANGED streamVars

\* generateContent from the resolution of fetch to its return or throw.
generateContentResume(resp) ==
    /\ pc = "awaitFetch"
    /\ op = "generateContent"
    /\ wireReq' = <<>>
    /\ response' = resp
    /\ IF ~resp.ok
       THEN /\ pc' = "failed"
            /\ result' = ApiErrorOf(resp)
       ELSE LET responseData == JSONParse(ResponseText(resp))
                r == IF responseData.ok THEN toGenericResponse(responseData.value)
                     ELSE responseData
            IN /\ pc' = IF r.ok THEN "returned" ELSE "failed"
               /\ result' = r
    /\ UNCHANGED <<op, request, fetchCalls, warned>>
    /\ UNCHANGED streamVars

\* Mutant: only the status is checked, not the presence of a body.
generateContentStreamResumeAnyBody(resp) ==
    /\ pc = "awaitFetch"
    /\ op = "generateContentStream"
    /\ wireReq' = <<>>
    /\ response' = resp
    /\ IF ~resp.ok
       THEN /\ pc' = "failed"
            /\ result' = ApiErrorOf(resp)
            /\ UNCHANGED <<request, gen, wire>>
       ELSE /\ pc' = "streaming"
            /\ result' = Ok("generator")
            /\ request' = <<>>
            /\ gen' = "suspendedStart"
            /\ wire' = resp.body
    /\ UNCHANGED <<op, fetchCalls, warned>>
    /\ UNCHANGED <<pendingBytes, buffer, lines, yielded, diag, midLine>>

\* generateContentStream from the resolution of fetch to `return generator()`
\* or its throw.  The generator object keeps the reader and the decoder only.
generateContentStreamResume(resp) ==
    /\ pc = "awaitFetch"
    /\ op = "generateContentStream"
    /\ wireReq' = <<>>
    /\ response' = resp
    /\ IF ~resp.ok \/ ~resp.hasBody
       THEN /\ pc' = "failed"
            /\ result' = ApiErrorOf(resp)
            /\ UNCHANGED <<request, gen, wire>>
       ELSE /\ pc' = "streaming"
            /\ result' = Ok("generator")
            /\ request' = <<>>
            /\ gen' = "suspendedStart"
            /\ wire' = resp.body
    /\ UNCHANGED <<op, fetchCalls, warned>>
    /\ UNCHANGED <<pendingBytes, buffer, lines, yielded, diag, midLine>>

\* The consumer asks the generator for its next value: the generator runs
\* from where it is suspended to `await reader.read()`, a yield or its return.
next ==
    /\ pc = "streaming"
    /\ \/ /\ gen = "suspendedStart"
          /\ buffer' = <<>>
          /\ gen' = "awaitRead"
          /\ UNCHANGED <<lines, yielded, diag>>
       \/ /\ gen = "suspendedYield"
          /\ Advance(lines)
          /\ UNCHANGED buffer
    /\ UNCHANGED <<wire, pendingBytes, midLine>>
    /\ UNCHANGED callVars

\* Mutant: the decoded chunk replaces the buffer instead of being appended.
readChunkOverwrite(n) ==
    /\ pc = "streaming"
    /\ gen = "awaitRead"
    /\ n \in 1..Min(Len(wire), MaxChunk)
    /\ LET value == SubSeq(wire, 1, n)
           decoded == Decode(pendingBytes, value)
           split == Split(decoded.text)
       IN /\ wire' = SubSeq(wire, n + 1, Len(wire))
          /\ pendingBytes' = decoded.pending
          /\ buffer' = PopOrEmpty(split)
          /\ midLine' = (midLine \/ PopOrEmpty(split) # <<>> \/ decoded.pending # <<>>)
          /\ Advance(Front(split))
    /\ UNCHANGED callVars

\* reader.read() resolves with the next n bytes of the body and the generator
\* runs on to its next suspension point.
readChunk(n) ==
    /\ pc = "streaming"
    /\ gen = "awaitRead"
    /\ n \in 1..Min(Len(wire), MaxChunk)
    /\ LET value == SubSeq(wire, 1, n)
           decoded == Decode(pendingBytes, value)
           split == Split(buffer \o decoded.text)
       IN /\ wire' = SubSeq(wire, n + 1, Len(wire))
          /\ pendingBytes' = decoded.pending
          /\ buffer' = PopOrEmpty(split)
          /\ midLine' = (midLine \/ PopOrEmpty(split) # <<>> \/ decoded.pending # <<>>)
          /\ Advance(Front(split))
    /\ UNCHANGED callVars

\* Mutant: at the end of the body the held-back remainder is processed as a
\* last line.
readDoneFlush ==
    /\ pc = "streaming"
    /\ gen = "awaitRead"
    /\ wire = <<>>
    /\ gen' = "completed"
    /\ lines' = <<>>
    /\ LET r == RunLines(<<buffer>>, <<>>) IN
       /\ yielded' = IF r.stop = "yield" THEN Append(yielded, r.value) ELSE yielded
       /\ diag' = diag \o r.errs
    /\ UNCHANGED <<wire, pendingBytes, buffer, midLine>>
    /\ UNCHANGED callVars

\* reader.read() resolves with done: the loop breaks and the generator ends.
readDone ==
    /\ pc = "streaming"
    /\ gen = "awaitRead"
    /\ wire = <<>>
    /\ gen' = "completed"
    /\ lines' = <<>>
    /\ UNCHANGED <<wire, pendingBytes, buffer, yielded, diag, midLine>>
    /\ UNCHANGED callVars

\* Mutant: the stub posts the request to the backend.
countTokensViaBackend(contents) ==
    /\ pc = "idle"
    /\ op' = "countTokens"
    /\ request' = contents
    /\ warned' = warned
    /\ fetchAPI([model |-> "OPENAI_MODEL", messages |-> <<>>, stream |-> FALSE])
    /\ result' = Ok([totalTokens |-> 0])
    /\ pc' = "returned"
    /\ UNCHANGED response
    /\ UNCHANGED streamVars

countTokens(contents) ==
    /\ pc = "idle"
    /\ op' = "countTokens"
    /\ request' = contents
    /\ warned' = Append(warned, "Token counting is not yet implemented for OpenAI.")
    /\ result' = Ok([totalTokens |-> 0])
    /\ pc' = "returned"
    /\ UNCHANGED <<fetchCalls, wireReq, response>>
    /\ UNCHANGED streamVars

embedContent(contents) ==
    /\ pc = "idle"
    /\ op' = "embedContent"
    /\ request' = contents
    /\ warned' = Append(warned, "Content embedding is not yet implemented for OpenAI.")
    /\ result' = Ok([embeddings |-> <<>>])
    /\ pc' = "returned"
    /\ UNCHANGED <<fetchCalls, wireReq, response>>
    /\ UNCHANGED streamVars

CallGenerateContent == pc = "idle" /\ \E c \in Requests : generateContent(c)
CallGenerateContentStream == pc = "idle" /\ \E c \in Requests : generateContentStream(c)
CallCountTokens == pc = "idle" /\ \E c \in Requests : countTokens(c)
CallEmbedContent == pc = "idle" /\ \E c \in Requests : embedContent(c)
ResumeGenerateContent ==
    /\ pc = "awaitFetch"
    /\ \E resp \in NonOkResponses
                \cup {OkResponse(b) : b \in SingleShotBodies(Last(wireReq).messages)} :
        generateContentResume(resp)
ResumeGenerateContentStream ==
    /\ pc = "awaitFetch"
    /\ \E resp \in NonOkResponses \cup {NoBodyResponse}
                \cup {OkResponse(b) : b \in StreamBodies} :
        generateContentStreamResume(resp)
ReadChunk == gen = "awaitRead" /\ \E n \in 1..MaxChunk : readChunk(n)

Next ==
    \/ CallGenerateContent
    \/ CallGenerateContentStream
    \/ CallCountTokens
    \/ CallEmbedContent
    \/ fetchRejected
    \/ ResumeGenerateContent
    \/ ResumeGenerateContentStream
    \/ next
    \/ ReadChunk
    \/ readDone

Spec == Init /\ [][Next]_vars

-----------------------------------------------------------------------------
(* Chunking *)

\* Every value the generator yields when the consumer drains the loop over ls.
RECURSIVE Drain(_, _)
Drain(ls, acc) ==
    LET r == RunLines(ls, <<>>) IN
    IF r.stop = "yield" THEN Drain(r.rest, Append(acc, r.value)) ELSE acc

\* What the generator yields when reader.read() delivers the whole body as
\* one chunk and then reports done.
OneChunkYields(body) == Drain(Front(Split(Decode(<<>>, body).text)), <<>>)

\* C1: however the body is cut into chunks, a finished generator has yielded
\* exactly the sequence of responses it yields for the body as a single chunk.
ChunkingIndependent ==
    gen = "completed" => yielded = OneChunkYields(response.body)

ChunkingWitness ==
    /\ gen = "completed"
    /\ midLine
    /\ wire = <<>>
    /\ Len(yielded) >= 2

-----------------------------------------------------------------------------
(* Deltas then sentinel *)

TextsOf(ys) == [i \in 1..Len(ys) |-> ys[i].candidates[1].text]

ContentDeltas == {Delta("Hel", 0, "null"), Delta("lo", 0, "stop"), Delta("eacute", 1, "null")}

\* The body made of the delta lines ds, each ended by a newline, and then
\* the sentinel line.
DeltasThenSentinel(ds) ==
    Encode(JoinLines([i \in 1..Len(ds) |-> DataLine(Stringify(ds[i]))]
                     \o <<DataLine(Sentinel)>>))

\* The bodies of that form, and the deltas each one is made of.
DeltaLists == SeqsUpTo(ContentDeltas, MaxLines - 1)
DeltaBodies == {DeltasThenSentinel(ds) : ds \in DeltaLists}
DeltasOf == [b \in DeltaBodies |-> CHOOSE ds \in DeltaLists : DeltasThenSentinel(ds) = b]

HelLo == <<Delta("Hel", 0, "null"), Delta("lo", 0, "stop")>>

\* C2: on a body of n valid delta lines and the sentinel line the generator
\* yields the deltas' contents in order and nothing else: never more than n
\* values, each the content of its delta, exactly n once it has ended, and no
\* error is logged.
DeltasYieldedInOrder ==
    (pc = "streaming" /\ response.body \in DeltaBodies) =>
        LET ds == DeltasOf[response.body] IN
        /\ Len(yielded) <= Len(ds)
        /\ \A i \in 1..Len(yielded) :
               /\ yielded[i].candidates[1].text = ds[i].choices[1].content
               /\ Len(yielded[i].candidates) = 1
        /\ gen = "completed" => Len(yielded) = Len(ds)
        /\ diag = <<>>

DeltasWitness ==
    /\ gen = "completed"
    /\ response.body = DeltasThenSentinel(HelLo)
    /\ TextsOf(yielded) = <<"Hel", "lo">>

-----------------------------------------------------------------------------
(* Malformed lines *)

IsDataLine(line) == StartsWith(line, DataPrefix)
IsSentinelLine(line) == IsDataLine(line) /\ Trim(Substring(line, 6)) = Sentinel
PayloadOf(line) == JSONParse(Substring(line, 6))
IsValidDeltaLine(line) ==
    /\ IsDataLine(line)
    /\ ~IsSentinelLine(line)
    /\ PayloadOf(line).ok
    /\ toGenericDelta(PayloadOf(line).value).ok
IsMalformedLine(line) ==
    IsDataLine(line) /\ ~IsSentinelLine(line) /\ ~IsValidDeltaLine(line)

\* The complete lines of a body, up to the first sentinel line.
CompleteLines(body) == Front(Split(Decode(<<>>, body).text))
BeforeSentinel(ls) ==
    LET stops == {i \in 1..Len(ls) : IsSentinelLine(ls[i])} IN
    IF stops = {} THEN ls
    ELSE SubSeq(ls, 1, (CHOOSE i \in stops : \A j \in stops : i <= j) - 1)

ValidDeltaResponses(body) ==
    LET valid == SelectSeq(BeforeSentinel(CompleteLines(body)), IsValidDeltaLine) IN
    [i \in 1..Len(valid) |-> toGenericDelta(PayloadOf(valid[i]).value).value]

\* C3: a malformed data line does not end the sequence: a finished generator
\* has yielded exactly the responses of the valid delta lines among the
\* complete lines before the sentinel, in their order, the malformed ones
\* being skipped.
MalformedLineSkipped ==
    gen = "completed" => yielded = ValidDeltaResponses(response.body)

MalformedBetween ==
    Encode(JoinLines(<<DataLine(Stringify(Delta("Hel", 0, "null"))),
                       DataLine(<<"{", "delta", "Hel">>),
                       DataLine(Stringify(Delta("lo", 0, "stop")))>>))

MalformedWitness ==
    /\ gen = "completed"
    /\ response.body = MalformedBetween
    /\ TextsOf(yielded) = <<"Hel", "lo">>
    /\ diag = <<SyntaxError>>

-----------------------------------------------------------------------------
(* Non-OK status *)

GenerateOps == {"generateContent", "generateContentStream"}
Answered == response.status # ""

\* C4: when the backend answers with a non-OK status, the call (generateContent
\* or generateContentStream) has failed with an error whose message holds the
\* status code, the status text and, to its end, the text of the body exactly
\* as received; nothing was returned and no generator exists.
NonOkStatusSurfaced ==
    (Answered /\ ~response.ok) =>
        /\ op \in GenerateOps
        /\ pc = "failed"
        /\ ~result.ok
        /\ result.error = ApiError
        /\ SubSeq(result.detail, 1, 4) = <<response.status, " ", response.statusText, " - ">>
        /\ Encode(SubSeq(result.detail, 5, Len(result.detail))) = response.body
        /\ gen = "none"
        /\ yielded = <<>>

NonOkStatusWitness ==
    /\ op = "generateContentStream"
    /\ pc = "failed"
    /\ response.status = "401"
    /\ result.detail = <<"401", " ", "Unauthorized", " - ", "invalid key">>

-----------------------------------------------------------------------------
(* Outbound translation of a call's turns *)

SupportedRole(turn) == turn.role \in {"user", "model"}
NoParts(turn) == ~turn.hasParts \/ turn.parts = <<>>
AllText(turn) == \A k \in 1..Len(turn.parts) : turn.parts[k].kind = "text"

\* The turns the translation accepts.
Translatable(turn) == SupportedRole(turn) /\ ~NoParts(turn) /\ AllText(turn)

\* The states of a generate call whose request is still held: right after the
\* translation (failed, or sent and awaiting the answer) and later.
Translating == op \in GenerateOps /\ pc \in {"failed", "awaitFetch", "returned"}

\* The first turn of the request the translation does not accept, 0 if none.
FirstRefused ==
    LET bad == {i \in 1..Len(request) : ~Translatable(request[i])} IN
    IF bad = {} THEN 0 ELSE CHOOSE i \in bad : \A j \in bad : i <= j

Sent == fetchCalls > 0

\* C5: the role user is sent as user and model as assistant; a call whose
\* first refused turn has any other role fails with the unsupported-role
\* error naming that role, whatever the parts of that turn.
RoleMapping ==
    Translating =>
        /\ (FirstRefused # 0 /\ ~SupportedRole(request[FirstRefused])) =>
               /\ pc = "failed"
               /\ result.error = UnsupportedRole
               /\ result.detail = <<request[FirstRefused].role>>
        /\ pc = "awaitFetch" =>
               /\ Len(Last(wireReq).messages) = Len(request)
               /\ \A i \in 1..Len(request) :
                      Last(wireReq).messages[i].role =
                          (IF request[i].role = "user" THEN "user" ELSE "assistant")
                      /\ SupportedRole(request[i])

RoleWitness ==
    /\ pc = "failed"
    /\ Len(request) = 1
    /\ request[1].role = "tool"
    /\ request[1].parts = <<TextPart("Hel")>>
    /\ result.error = UnsupportedRole

RoleSentWitness ==
    /\ pc = "awaitFetch"
    /\ Len(request) = 2
    /\ request[1].role = "user"
    /\ request[2].role = "model"

\* C6: a call whose first refused turn has a supported role and no parts
\* (parts absent or empty) fails with the error of reading the absent first
\* part, which is another error than the unsupported-part error; that one is
\* raised when the first part is there and is not text.
EmptyTurnFails ==
    (Translating /\ FirstRefused # 0 /\ SupportedRole(request[FirstRefused])) =>
        LET turn == request[FirstRefused] IN
        /\ pc = "failed"
        /\ ~Sent
        /\ NoParts(turn) => result.error = TypeError /\ result.error # UnsupportedPart
        /\ (~NoParts(turn) /\ turn.parts[1].kind # "text") => result.error = UnsupportedPart

EmptyTurnWitness ==
    /\ pc = "failed"
    /\ Len(request) = 1
    /\ request[1].role = "user"
    /\ request[1].hasParts
    /\ request[1].parts = <<>>
    /\ result.error = TypeError

-----------------------------------------------------------------------------
(* The stubs *)

\* C7: countTokens has returned {totalTokens: 0} and embedContent has returned
\* {embeddings: []} whatever the request, and neither has handed anything to
\* the transport.
StubsConstant ==
    /\ op = "countTokens" =>
           pc = "returned" /\ result = Ok([totalTokens |-> 0])
           /\ fetchCalls = 0 /\ wireReq = <<>>
    /\ op = "embedContent" =>
           pc = "returned" /\ result = Ok([embeddings |-> <<>>])
           /\ fetchCalls = 0 /\ wireReq = <<>>

StubsWitness ==
    /\ op = "countTokens"
    /\ Len(request) = 2
    /\ request[1].role = "tool"
    /\ result = Ok([totalTokens |-> 0])

-----------------------------------------------------------------------------
(* Round trip *)

\* The single-shot body that echoes a backend message's content.
EchoBody(message) == Encode(Stringify(Message(message.content)))

SingleTextTurn(turn) ==
    SupportedRole(turn) /\ Len(turn.parts) = 1 /\ turn.parts[1].kind = "text"

\* C8: a request of one turn with role user or model and a single text part
\* is sent, and when the backend answers with the body that echoes the content
\* of the message built from it, the response returned has one candidate whose
\* text is the text of that part, the empty text included.
RoundTrip ==
    (op = "generateContent" /\ pc # "idle" /\ Len(request) = 1
        /\ SingleTextTurn(request[1])) =>
        LET message == toOpenAIChatCompletionMessage(request[1]) IN
        /\ message.ok
        /\ Sent
        /\ (response.ok /\ response.body = EchoBody(message.value)) =>
               /\ pc = "returned"
               /\ result.ok
               /\ Len(result.value.candidates) = 1
               /\ result.value.candidates[1].text = request[1].parts[1].text
               /\ result.value.candidates[1].role = "model"

RoundTripWitness ==
    /\ op = "generateContent"
    /\ pc = "returned"
    /\ request = <<[role |-> "model", hasParts |-> TRUE, parts |-> <<TextPart("Hel")>>]>>
    /\ response.body = Encode(Stringify(Message("Hel")))
    /\ result.value.candidates[1].text = "Hel"

RoundTripEmptyWitness ==
    /\ op = "generateContent"
    /\ pc = "returned"
    /\ request = <<[role |-> "user", hasParts |-> TRUE, parts |-> <<TextPart("")>>]>>
    /\ response.body = Encode(Stringify(Message("")))
    /\ result.value.candidates[1].text = ""

-----------------------------------------------------------------------------
(* Parts beyond the first *)

FirstPartText(turn) == ~NoParts(turn) /\ turn.parts[1].kind = "text"

\* C9 as stated: a turn with a supported role whose first part is text is
\* translated, to a message with that text as content, whatever parts follow.
LaterPartsIgnored ==
    (Translating /\ Len(request) = 1 /\ SupportedRole(request[1])
        /\ FirstPartText(request[1])) =>
        /\ Sent
        /\ pc = "awaitFetch" =>
               Last(wireReq).messages[1].content = request[1].parts[1].text

\* C9 as amended: every part of a turn is converted before the first is
\* taken.  A request whose turns all have a supported role and text parts
\* only is sent with, for each turn, the text of its first part as content,
\* the later text parts being left out; a call whose first refused turn has a
\* supported role and a part that is not text, in whatever position, fails
\* with the unsupported-part error and nothing is sent.
LaterTextPartsIgnored ==
    Translating =>
        /\ FirstRefused = 0 =>
               /\ Sent
               /\ pc = "awaitFetch" =>
                      \A i \in 1..Len(request) :
                          Last(wireReq).messages[i].content = request[i].parts[1].text
        /\ (FirstRefused # 0 /\ SupportedRole(request[FirstRefused])
               /\ ~NoParts(request[FirstRefused])) =>
               /\ pc = "failed"
               /\ ~Sent
               /\ result.error = UnsupportedPart

LaterTextPartWitness ==
    /\ pc = "awaitFetch"
    /\ Len(request) = 1
    /\ request[1].parts = <<TextPart("Hel"), TextPart("")>>
    /\ Last(wireReq).messages[1].content = "Hel"

-----------------------------------------------------------------------------
(* Translation before the network *)

TranslationErrors == {UnsupportedRole, UnsupportedPart, TypeError}

\* C10: a generate call with a turn the translation refuses has failed with
\* the translation's error and has handed nothing to the transport: no fetch,
\* no request in flight, no response.
TranslationBeforeNetwork ==
    (Translating /\ FirstRefused # 0) =>
        /\ pc = "failed"
        /\ ~result.ok
        /\ result.error \in TranslationErrors
        /\ fetchCalls = 0
        /\ wireReq = <<>>
        /\ response = NoResponse
        /\ gen = "none"

TranslationFailureWitness ==
    /\ op = "generateContentStream"
    /\ pc = "failed"
    /\ Len(request) = 2
    /\ Translatable(request[1])
    /\ ~Translatable(request[2])
    /\ fetchCalls = 0

-----------------------------------------------------------------------------
(* One request per call *)

\* The call has ended with an error.
Failed == pc = "failed"

\* C11: a call posts at most one request; once the call has failed (the send
\* was rejected or the status was not OK) nothing is in flight, no response
\* or generator exists, and no later step changes the outcome, posts again
\* or yields.
NoRetry ==
    /\ [](/\ fetchCalls <= 1
          /\ Len(wireReq) <= 1
          /\ Failed => /\ ~result.ok
                       /\ wireReq = <<>>
                       /\ gen = "none"
                       /\ yielded = <<>>)
    /\ [][Failed => /\ pc' = "failed"
                    /\ result' = result
                    /\ fetchCalls' = fetchCalls
                    /\ yielded' = yielded]_vars

NoRetryWitness ==
    /\ Failed
    /\ op = "generateContent"
    /\ fetchCalls = 1
    /\ result.error = "TypeError: fetch failed"

-----------------------------------------------------------------------------
(* A body without a choice *)

\* The answer to generateContent is OK and its body is a JSON value that
\* holds no choice.
NoChoiceAnswered ==
    /\ op = "generateContent"
    /\ Answered
    /\ response.ok
    /\ LET responseData == JSONParse(ResponseText(response)) IN
       responseData.ok /\ responseData.value.choices = <<>>

\* C12: when generateContent is answered OK with a body that holds no choice
\* (choices missing or empty), the call fails with the malformed-response
\* error, not with the error of an access to a field of undefined.
NoChoiceMalformedResponse ==
    NoChoiceAnswered =>
        /\ pc = "failed"
        /\ ~result.ok
        /\ result.error = "MalformedResponseError"

-----------------------------------------------------------------------------
(* The sentinel ends the sequence *)

\* The text of the chunks reader.read() has handed over so far, and its
\* complete lines.
Received ==
    Decode(<<>>, SubSeq(response.body, 1, Len(response.body) - Len(wire))).text
ReceivedLines == Front(Split(Received))

HasSentinel(ls) == \E i \in 1..Len(ls) : IsSentinelLine(ls[i])

IsPrefix(s, t) == Len(s) <= Len(t) /\ s = SubSeq(t, 1, Len(s))

\* C13: the sentinel line ends the sequence at once and normally: the
\* generator never awaits a read once a sentinel line is among the complete
\* lines received, what it has yielded comes from the lines before the first
\* sentinel only, and a finished generator reads and yields nothing more.
SentinelEnds ==
    /\ [](pc = "streaming" =>
            LET responses == ValidDeltaResponses(response.body) IN
            /\ gen = "awaitRead" => ~HasSentinel(ReceivedLines)
            /\ IsPrefix(yielded, responses)
            /\ (gen = "completed" /\ HasSentinel(ReceivedLines)) =>
                   /\ yielded = responses
                   /\ result.ok)
    /\ [][gen = "completed" =>
              /\ gen' = "completed"
              /\ wire' = wire
              /\ yielded' = yielded
              /\ diag' = diag]_vars

DeltaAfterSentinel ==
    Encode(JoinLines(<<DataLine(Stringify(Delta("Hel", 0, "null"))),
                       DataLine(Sentinel),
                       DataLine(Stringify(Delta("lo", 0, "stop")))>>))

SentinelWitness ==
    /\ gen = "completed"
    /\ response.body = DeltaAfterSentinel
    /\ wire # <<>>
    /\ TextsOf(yielded) = <<"Hel">>

-----------------------------------------------------------------------------
(* The held-back remainder *)

\* The responses of the valid delta lines among ls, up to the first sentinel.
ResponsesOf(ls) ==
    LET valid == SelectSeq(BeforeSentinel(ls), IsValidDeltaLine) IN
    [i \in 1..Len(valid) |-> toGenericDelta(PayloadOf(valid[i]).value).value]

\* The body has been read to its end and no sentinel line was in it.
ClosedWithoutSentinel ==
    /\ pc = "streaming"
    /\ gen = "completed"
    /\ wire = <<>>
    /\ ~HasSentinel(ReceivedLines)

\* C14: every yield comes from a line whose newline has been received; when
\* the body ends without a sentinel the generator finishes without an error
\* and the remainder held in the buffer has produced neither a response nor
\* a diagnostic, even when it is a well-formed data line.
RemainderDiscarded ==
    pc = "streaming" =>
        LET received == Received
            split == Front(Split(received))
            responses == ResponsesOf(split)
            malformed == SelectSeq(split, IsMalformedLine)
        IN /\ IsPrefix(yielded, responses)
           /\ Len(diag) <= Len(malformed)
           /\ ClosedWithoutSentinel =>
                  /\ result.ok
                  /\ yielded = responses
                  /\ Len(diag) = Len(malformed)
                  /\ buffer = Last(Split(received))

UnterminatedDelta == DataLine(Stringify(Delta("lo", 0, "stop")))

RemainderWitness ==
    /\ ClosedWithoutSentinel
    /\ buffer = UnterminatedDelta
    /\ TextsOf(yielded) = <<"Hel">>
    /\ diag = <<>>

-----------------------------------------------------------------------------
(* Reads follow the consumer *)

\* The generator is suspended: the consumer has no request outstanding.
Suspended == gen \in {"suspendedStart", "suspendedYield"}

\* The length of the text held as lines still to be visited.
RECURSIVE LinesLen(_)
LinesLen(ls) == IF ls = <<>> THEN 0 ELSE Len(Head(ls)) + 1 + LinesLen(Tail(ls))

\* C15: a chunk is read only while a request of the consumer is being served
\* and every complete line already read has been visited; while the
\* generator is suspended nothing is read; a served request yields at most
\* one value and then suspends; what is held (lines to visit and the partial
\* line) never exceeds the partial line held before plus the chunk just read.
Backpressure ==
    /\ [](pc = "streaming" => (gen = "awaitRead" => lines = <<>>))
    /\ [][pc = "streaming" =>
              /\ wire' # wire => (gen = "awaitRead" /\ lines = <<>>)
              /\ Suspended => /\ wire' = wire
                              /\ pendingBytes' = pendingBytes
                              /\ Len(buffer') <= Len(buffer)
              /\ gen' = "awaitRead" => (yielded' = yielded /\ lines' = <<>>)
              /\ Len(yielded') <= Len(yielded) + 1
              /\ Len(yielded') > Len(yielded) => gen' = "suspendedYield"
              /\ LinesLen(lines') + Len(buffer')
                     <= LinesLen(lines) + Len(buffer) + (Len(wire) - Len(wire'))]_vars

BackpressureWitness ==
    /\ gen = "suspendedYield"
    /\ lines # <<>>
    /\ buffer # <<>>
    /\ wire # <<>>
    /\ Len(yielded) = 1

-----------------------------------------------------------------------------
(* The stream exists only after an OK answer with a body *)

\* generateContentStream was answered with a status that is not OK or
\* without a body.
StreamRefused ==
    /\ op = "generateContentStream"
    /\ Answered
    /\ (~response.ok \/ ~response.hasBody)

\* C16: a generator exists, and anything is yielded, only after the one
\* request of generateContentStream was answered OK with a body; an answer
\* that is not OK or has no body makes the call itself fail with the API
\* error: no generator is returned and nothing is ever yielded.
StreamOnlyAfterOkBody ==
    /\ (gen # "none" \/ yielded # <<>>) =>
           /\ op = "generateContentStream"
           /\ pc = "streaming"
           /\ result = Ok("generator")
           /\ fetchCalls = 1
           /\ wireReq = <<>>
           /\ response.ok
           /\ response.hasBody
    /\ StreamRefused =>
           /\ pc = "failed"
           /\ result = ApiErrorOf(response)
           /\ gen = "none"
           /\ yielded = <<>>

StreamRefusedWitness ==
    /\ StreamRefused
    /\ response.ok
    /\ pc = "failed"
    /\ result.detail = <<"200", " ", "OK", " - ">>

-----------------------------------------------------------------------------
(* Lines without the data prefix *)

\* What the catch block logs for the malformed lines among ls, up to the
\* first sentinel: the error of JSON.parse or of the access to the delta.
DiagnosticsOf(ls) ==
    LET bad == SelectSeq(BeforeSentinel(ls), IsMalformedLine) IN
    [i \in 1..Len(bad) |->
        IF PayloadOf(bad[i]).ok THEN toGenericDelta(PayloadOf(bad[i]).value).error
        ELSE PayloadOf(bad[i]).error]

DataLinesOf(body) == SelectSeq(CompleteLines(body), IsDataLine)

\* C17: a complete line that does not start with the data prefix is dropped
\* without a trace: a finished generator has yielded and logged exactly what
\* the data lines of the body alone give, so such a line yields nothing,
\* logs nothing, ends nothing and leaves the lines after it as they are.
NonDataLineDiscarded ==
    gen = "completed" =>
        LET data == DataLinesOf(response.body) IN
        /\ yielded = ResponsesOf(data)
        /\ diag = DiagnosticsOf(data)

CommentBetween ==
    Encode(JoinLines(<<DataLine(Stringify(Delta("Hel", 0, "null"))),
                       <<":">>,
                       DataLine(Stringify(Delta("lo", 0, "stop")))>>))

NonDataLineWitness ==
    /\ gen = "completed"
    /\ response.body = CommentBetween
    /\ TextsOf(yielded) = <<"Hel", "lo">>
    /\ diag = <<>>

-----------------------------------------------------------------------------
(* Missing content *)

\* The only candidate of a response made from a choice without content.
EmptyTextCandidates(choice) ==
    <<[index |-> choice.index,
       role |-> "model",
       text |-> "",
       finishReason |-> choice.finish_reason]>>

\* generateContent was answered OK with a choice whose message has no content.
MessageWithoutContent ==
    /\ op = "generateContent"
    /\ Answered
    /\ response.ok
    /\ LET responseData == JSONParse(ResponseText(response)) IN
       /\ responseData.ok
       /\ responseData.value.choices # <<>>
       /\ responseData.value.choices[1].obj = "message"
       /\ ~responseData.value.choices[1].hasContent

\* C18: a message without content makes generateContent return, and every
\* delta without content makes the generator yield, one response with one
\* candidate of role model whose text is empty and whose index and finish
\* reason are those of the choice.
MissingContentEmptyText ==
    /\ MessageWithoutContent =>
           /\ pc = "returned"
           /\ result.ok
           /\ result.value.candidates =
                  EmptyTextCandidates(JSONParse(ResponseText(response)).value.choices[1])
    /\ gen = "completed" =>
           LET valid == SelectSeq(BeforeSentinel(CompleteLines(response.body)),
                                  IsValidDeltaLine)
           IN /\ Len(yielded) = Len(valid)
              /\ \A i \in 1..Len(valid) :
                     LET choice == PayloadOf(valid[i]).value.choices[1] IN
                     ~choice.hasContent =>
                         yielded[i].candidates = EmptyTextCandidates(choice)

MissingContentWitness ==
    /\ MessageWithoutContent
    /\ pc = "returned"
    /\ result.value.candidates[1].text = ""
    /\ result.value.candidates[1].index = 1

MissingDeltaContentWitness ==
    /\ gen = "completed"
    /\ response.body = Encode(JoinLines(<<DataLine(Stringify(NoContentDelta(0)))>>))
    /\ TextsOf(yielded) = <<"">>

-----------------------------------------------------------------------------
(* Diagnostics of malformed lines *)

\* C19: the catch block logs one error for each malformed data line and
\* nothing else does: what is logged is always a prefix of the errors of the
\* malformed complete lines of the body, and a finished generator has logged
\* all of those before the sentinel, so that each data line before the
\* sentinel gave either one response or one diagnostic.
MalformedObserved ==
    pc = "streaming" =>
        LET complete == CompleteLines(response.body)
            diagnostics == DiagnosticsOf(complete)
        IN /\ IsPrefix(diag, diagnostics)
           /\ gen = "completed" =>
                  /\ diag = diagnostics
                  /\ Len(yielded) + Len(diag) =
                         Len(SelectSeq(BeforeSentinel(complete), IsDataLine))

MalformedAround ==
    Encode(JoinLines(<<DataLine(<<"{", "delta", "Hel">>),
                       DataLine(Stringify(Delta("Hel", 0, "null"))),
                       DataLine(Stringify(EmptyChoices))>>))

MalformedObservedWitness ==
    /\ gen = "completed"
    /\ response.body = MalformedAround
    /\ diag = <<SyntaxError, TypeError>>
    /\ TextsOf(yielded) = <<"Hel">>

-----------------------------------------------------------------------------
(* The buffer *)

\* The generator has not returned at a sentinel.
BeforeSentinelSeen ==
    pc = "streaming" /\ ~(gen = "completed" /\ HasSentinel(ReceivedLines))

\* C20: until the sentinel is seen the buffer holds no newline, and the
\* lines visited (whose responses and diagnostics are those given so far),
\* the lines still to visit and the buffer are, in this order and with a
\* newline after each line, exactly the text of the chunks received.
BufferInvariant ==
    BeforeSentinelSeen =>
        LET received == Received
            split == Front(Split(received))
            visited == SubSeq(split, 1, Len(split) - Len(lines))
        IN /\ \A i \in 1..Len(buffer) : buffer[i] # NL
           /\ Len(lines) <= Len(split)
           /\ lines = SubSeq(split, Len(visited) + 1, Len(split))
           /\ JoinLines(visited) \o JoinLines(lines) \o buffer = received
           /\ yielded = ResponsesOf(visited)
           /\ diag = DiagnosticsOf(visited)

BufferWitness ==
    /\ gen = "awaitRead"
    /\ Len(ReceivedLines) = 1
    /\ Len(yielded) = 1
    /\ buffer # <<>>
    /\ pendingBytes # <<>>
    /\ wire # <<>>

====
